---- MODULE Spec2Model ----
(***************************************************************************)
(* Fuel-consumption derivation of the traficar scripts.                    *)
(*                                                                         *)
(* Units.  Volumes are exact decimals scaled to integers: a volume of      *)
(* litres is held in millilitres (12.5 l = 12500), a tank capacity         *)
(* (maxFuel) in tenths of a litre (10.4 l = 104), a fuel percentage as     *)
(* the integer the API reports.  With these scales                         *)
(* (fuel / 100.0) * maxFuel litres = fuel * maxFuel millilitres.           *)
(* A value printed with "%.2f" is held in centilitres (5.30 = 530).        *)
(* The sample values are chosen so that the binary floating point results  *)
(* of the scripts agree with the exact decimal results used here.          *)
(***************************************************************************)
EXTENDS Integers, Sequences, FiniteSets, TLC

VARIABLES
    pc,                 \* position of monitor_traficar.main
    cycle,              \* number of monitoring cycles started so far
    cacheFile,          \* data/car_models.json
    stateFile,          \* data/last_state.csv
    logFile,            \* data/consumption.csv
    models,             \* main: models
    current_cars,       \* main: current_cars
    previous_state,     \* main: previous_state
    consumption_events, \* main: consumption_events
    fetched,            \* history: the table returned by the call that wrote the cache
    lastPoll,           \* history: the last completed cycle and its current_cars
    lastSeen,           \* history: per car, its record in the last completed cycle that polled it
    logAtStart,         \* history: logFile when the running cycle started
    call                \* the last direct call of a derivation function

vars == <<pc, cycle, cacheFile, stateFile, logFile, models, current_cars,
          previous_state, consumption_events, fetched, lastPoll, lastSeen,
          logAtStart, call>>

----------------------------------------------------------------------------
(* Bounds and sample inputs *)

MaxCycles == 3
MaxReadings == 3

\* the fleet: three cars, one of each kind of model (see ModelOfCar)
CarIds == {1, 2, 3}
Percents == {50, 51}

\* "Only record significant consumption (> 0.1 liter ...)": 0.1 l = 100 ml
Threshold == 100

\* membership test "type not in [1, 2]"
ValidTypes == {1, 2}

----------------------------------------------------------------------------
(* Dictionary keys.  Python keeps the int 11 and the str "11" apart. *)

IntKey(n) == <<"int", n>>
StrKey(n) == <<"str", n>>

\* json.dump writes every key of an object as a string
JsonKey(k) == StrKey(k[2])

\* json.dump(models, f): the JSON object written to the cache file
JsonDump(table) ==
    [k \in {JsonKey(j) : j \in DOMAIN table} |->
        table[CHOOSE j \in DOMAIN table : JsonKey(j) = k]]

\* json.load(f): object keys come back as strings, values unchanged
JsonLoad(json) == json

----------------------------------------------------------------------------
(* The fleet API *)

\* body of GET /car-models?modelType=t when it succeeds
ApiModels(t) ==
    IF t = 1
    THEN << [id |-> 10, name |-> "m10", type |-> 1, maxFuel |-> 500],
            [id |-> 12, name |-> "m12", type |-> 3, maxFuel |-> 400] >>
    ELSE << [id |-> 11, name |-> "m11", type |-> 2, maxFuel |-> 104] >>

\* the modelId the API reports for a car: car 1 has a type 1 model of 50 l,
\* car 2 a type 2 model of 10.4 l, car 3 a model of type 3
ModelOfCar(c) == 9 + c

\* one car record of GET /cars; a record may lack its 'fuel' key
CarRecords(c) ==
    {[id |-> c, modelId |-> ModelOfCar(c), fuel |-> f, available |-> a] :
        f \in Percents, a \in BOOLEAN}
    \cup {[id |-> c, modelId |-> ModelOfCar(c), available |-> TRUE]}

RECURSIVE PollsOf(_)
\* the lists response.json()['cars'] can be: the cars of S in ascending id,
\* each present or not
PollsOf(S) ==
    IF S = {} THEN {<< >>}
    ELSE LET c    == CHOOSE x \in S : \A y \in S : x <= y
             rest == PollsOf(S \ {c})
         IN  rest \cup {<<r>> \o p : r \in CarRecords(c), p \in rest}

Polls == PollsOf(CarIds)

HasKey(d, k) == k \in DOMAIN d

----------------------------------------------------------------------------
(* Numbers and their text *)

\* (fuel / 100.0) * max_fuel, in millilitres
Liters(fuel, max_fuel) == fuel * max_fuel

\* f"{x:.2f}" of a volume in millilitres: the nearest centilitre
\* (no sample value lies exactly between two centilitres)
Format2f(ml) == (ml + 5) \div 10

\* float(text) of a "%.2f" text, back in millilitres
ParseFloat(cl) == cl * 10

\* str(True) / str(False) as csv.writer writes a bool
BoolText(b) == IF b THEN "True" ELSE "False"

----------------------------------------------------------------------------
(* Files.  A file that does not exist has exists = FALSE. *)

NoCache == [exists |-> FALSE, json |-> << >>]
NoState == [exists |-> FALSE, format |-> "new", rows |-> << >>]
NoLog   == [exists |-> FALSE, lines |-> << >>]

LogHeader == [kind |-> "header"]

----------------------------------------------------------------------------
(* monitor_traficar.get_car_models *)

\* the answers of the two car-models requests: HTTP 200 with the list, or not
ApiAnswers == [{1, 2} -> {200, 500}]

\* models after the request loop "for model_type in [1, 2]"
FetchModels(status) ==
    LET entry(m) == [name |-> m.name, type |-> m.type, maxFuel |-> m.maxFuel]
        got(t)   == IF status[t] = 200 THEN ApiModels(t) ELSE << >>
        ids(t)   == {got(t)[i].id : i \in 1..Len(got(t))}
        of(t, n) == got(t)[CHOOSE i \in 1..Len(got(t)) : got(t)[i].id = n]
    IN  [k \in {IntKey(n) : n \in ids(1) \cup ids(2)} |->
            IF k[2] \in ids(2) THEN entry(of(2, k[2])) ELSE entry(of(1, k[2]))]

\* variant: a cache that lacks a model the API now lists is fetched again
GetCarModelsCompletesCache(cache, status) ==
    LET m == FetchModels(status)
    IN  IF cache.exists /\ {JsonKey(k) : k \in DOMAIN m} \subseteq DOMAIN cache.json
        THEN [raised |-> FALSE, models |-> JsonLoad(cache.json), cache |-> cache,
              wrote |-> FALSE]
        ELSE IF DOMAIN m = {}
             THEN [raised |-> TRUE, models |-> << >>, cache |-> cache,
                   wrote |-> FALSE]
             ELSE [raised |-> FALSE, models |-> m,
                   cache |-> [exists |-> TRUE, json |-> JsonDump(m)],
                   wrote |-> TRUE]

GetCarModels(cache, status) ==
    IF cache.exists
    THEN [raised |-> FALSE, models |-> JsonLoad(cache.json), cache |-> cache,
          wrote |-> FALSE]
    ELSE LET m == FetchModels(status)
         IN  IF DOMAIN m = {}
             THEN [raised |-> TRUE, models |-> << >>, cache |-> cache,
                   wrote |-> FALSE]
             ELSE [raised |-> FALSE, models |-> m,
                   cache |-> [exists |-> TRUE, json |-> JsonDump(m)],
                   wrote |-> TRUE]

----------------------------------------------------------------------------
(* monitor_traficar.load_previous_state *)

RECURSIVE LoadRows(_, _)
LoadRows(rows, state) ==
    IF rows = << >> THEN state
    ELSE LET row == Head(rows)
             rec == [fuel_percent |-> row.fuel_percent,
                     fuel_liters  |-> ParseFloat(row.fuel_liters),
                     available    |-> (row.available = "True"),
                     model_id     |-> row.model_id]
         IN  LoadRows(Tail(rows), (row.id :> rec) @@ state)

LoadPreviousState(file) ==
    IF ~file.exists THEN << >>
    ELSE IF file.format = "old" /\ file.rows # << >> THEN << >>
    ELSE LoadRows(file.rows, << >>)

----------------------------------------------------------------------------
(* monitor_traficar.save_current_state *)

\* variant: only the unknown models are skipped, the type is not looked at
SkippedUnknownOnly(car, table) ==
    IntKey(car.modelId) \notin DOMAIN table

\* "Skip cars with unknown models or invalid types"
Skipped(car, table) ==
    \/ IntKey(car.modelId) \notin DOMAIN table
    \/ table[IntKey(car.modelId)].type \notin ValidTypes

StateRow(car, table) ==
    [id           |-> car.id,
     fuel_percent |-> car.fuel,
     fuel_liters  |-> Format2f(Liters(car.fuel, table[IntKey(car.modelId)].maxFuel)),
     available    |-> BoolText(car.available),
     model_id     |-> car.modelId]

RECURSIVE SaveRows(_, _, _)
\* the loop "for car in cars"; car['fuel'] of a record without it raises KeyError,
\* and the rows written before it stay in the file
SaveRows(cars, table, rows) ==
    IF cars = << >> THEN [raised |-> FALSE, rows |-> rows]
    ELSE LET car == Head(cars)
         IN  IF Skipped(car, table) THEN SaveRows(Tail(cars), table, rows)
             ELSE IF ~HasKey(car, "fuel") THEN [raised |-> TRUE, rows |-> rows]
             ELSE SaveRows(Tail(cars), table, Append(rows, StateRow(car, table)))

SaveCurrentState(cars, table) ==
    LET r == SaveRows(cars, table, << >>)
    IN  [raised |-> r.raised,
         file   |-> [exists |-> TRUE, format |-> "new", rows |-> r.rows]]

----------------------------------------------------------------------------
(* monitor_traficar.calculate_consumption *)

\* variant: the threshold test written ">=" (a drop of exactly 0.1 l counts)
ConsumedFromThreshold(prev_available, prev_fuel, curr_fuel) ==
    /\ prev_available
    /\ curr_fuel < prev_fuel
    /\ prev_fuel - curr_fuel >= Threshold

\* variant: the availability of the earlier reading is not looked at
ConsumedWhateverAvailability(prev_available, prev_fuel, curr_fuel) ==
    /\ curr_fuel < prev_fuel
    /\ prev_fuel - curr_fuel > Threshold

\* "if prev['available'] and curr_fuel_liters < prev_fuel_liters:
\*      consumption = prev_fuel_liters - curr_fuel_liters
\*      if consumption > 0.1:"
Consumed(prev_available, prev_fuel, curr_fuel) ==
    /\ prev_available
    /\ curr_fuel < prev_fuel
    /\ prev_fuel - curr_fuel > Threshold

RECURSIVE CalcLoop(_, _, _, _)
CalcLoop(prev_state, cars, table, events) ==
    IF cars = << >> THEN [raised |-> FALSE, events |-> events]
    ELSE LET car == Head(cars)
             rest == Tail(cars)
         IN  IF Skipped(car, table) THEN CalcLoop(prev_state, rest, table, events)
             ELSE IF car.id \notin DOMAIN prev_state
                  THEN CalcLoop(prev_state, rest, table, events)
             ELSE IF ~HasKey(car, "fuel") THEN [raised |-> TRUE, events |-> << >>]
             ELSE LET prev  == prev_state[car.id]
                      model == table[IntKey(car.modelId)]
                      curr_fuel_liters == Liters(car.fuel, model.maxFuel)
                      prev_fuel_liters == prev.fuel_liters
                      event == [car_id      |-> car.id,
                                consumption |-> prev_fuel_liters - curr_fuel_liters,
                                car_name    |-> model.name,
                                model_type  |-> model.type,
                                prev_fuel   |-> prev_fuel_liters,
                                curr_fuel   |-> curr_fuel_liters]
                  IN  IF Consumed(prev.available, prev_fuel_liters, curr_fuel_liters)
                      THEN CalcLoop(prev_state, rest, table, Append(events, event))
                      ELSE CalcLoop(prev_state, rest, table, events)

CalculateConsumption(prev_state, cars, table) ==
    CalcLoop(prev_state, cars, table, << >>)

----------------------------------------------------------------------------
(* monitor_traficar.append_consumption_log *)

LogRow(timestamp, event) ==
    [kind |-> "row",
     timestamp          |-> timestamp,
     car_id             |-> event.car_id,
     car_name           |-> event.car_name,
     model_type         |-> event.model_type,
     consumption_liters |-> Format2f(event.consumption),
     prev_fuel_liters   |-> Format2f(event.prev_fuel),
     curr_fuel_liters   |-> Format2f(event.curr_fuel)]

\* variant: the header row is written by every call that writes rows
AppendWithHeaderEachTime(file, timestamp, events) ==
    IF events = << >> THEN file
    ELSE [exists |-> TRUE,
          lines  |-> file.lines \o <<LogHeader>>
                        \o [i \in 1..Len(events) |-> LogRow(timestamp, events[i])]]

AppendConsumptionLog(file, timestamp, events) ==
    IF events = << >> THEN file
    ELSE LET start == IF file.exists THEN file.lines ELSE <<LogHeader>>
         IN  [exists |-> TRUE,
              lines  |-> start \o [i \in 1..Len(events) |-> LogRow(timestamp, events[i])]]

----------------------------------------------------------------------------
(* Stored readings: rows of data/all_readings.csv and of table car_readings *)

Times == {1, 2}
ReadingCars == {1, 2}

\* a fuel cell: a number, an empty cell (read as NaN / NULL) or other text;
\* the samples put the cells that are not numbers in rows of car 1
Num(v) == [kind |-> "num", v |-> v]
NaN == [kind |-> "nan", v |-> 0]
Text == [kind |-> "text", v |-> 0]

\* 12.5, 12.4, 12.298: drops of exactly 0.1, of 0.102 and of 0.202
FuelValues == {12500, 12400, 12298}

ReadingRows ==
    {[car_id |-> c, timestamp |-> t, fuel_liters |-> Num(v), available |-> a] :
        c \in ReadingCars, t \in Times, v \in FuelValues, a \in BOOLEAN}
    \cup {[car_id |-> 1, timestamp |-> t, fuel_liters |-> x, available |-> TRUE] :
        t \in Times, x \in {NaN, Text}}

\* the frames of exactly n rows
ReadingSets(n) == [1..n -> ReadingRows]

\* df.groupby('car_id'): the rows of one car, in the order of the frame
GroupOf(df, car_id) == SelectSeq(df, LAMBDA r : r.car_id = car_id)

\* the group keys, ascending
GroupKeys(df) == {df[i].car_id : i \in 1..Len(df)}

RECURSIVE SortByTimestamp(_)
\* sort_values('timestamp') / ORDER BY timestamp of a few rows: ascending,
\* rows of equal timestamp keep their order
SortByTimestamp(rows) ==
    IF rows = << >> THEN << >>
    ELSE LET n      == Len(rows)
             last   == rows[n]
             sorted == SortByTimestamp(SubSeq(rows, 1, n - 1))
             before == SelectSeq(sorted, LAMBDA r : r.timestamp <= last.timestamp)
             after  == SelectSeq(sorted, LAMBDA r : r.timestamp > last.timestamp)
         IN  before \o <<last>> \o after

----------------------------------------------------------------------------
(* calculate_fuel_consumption.calculate_consumption_from_readings *)

\* float(row['fuel_liters']) raises ValueError on text that is no number
FloatRaises(cell) == cell.kind = "text"

\* "prev_row['available'] and curr_fuel < prev_fuel", then "consumption > 0.1";
\* every comparison with NaN is false
ConsumedCells(prev_available, prev, curr) ==
    /\ prev.kind = "num" /\ curr.kind = "num"
    /\ Consumed(prev_available, prev.v, curr.v)

RECURSIVE ScanPairs(_, _, _)
\* "for i in range(len(car_data) - 1)" from pair i on
ScanPairs(car_data, i, events) ==
    IF i > Len(car_data) - 1 THEN [raised |-> FALSE, events |-> events]
    ELSE LET prev_row == car_data[i]
             curr_row == car_data[i + 1]
             prev_fuel == prev_row.fuel_liters
             curr_fuel == curr_row.fuel_liters
             event == [timestamp          |-> curr_row.timestamp,
                       car_id             |-> curr_row.car_id,
                       consumption_liters |-> prev_fuel.v - curr_fuel.v,
                       prev_fuel_liters   |-> prev_fuel.v,
                       curr_fuel_liters   |-> curr_fuel.v,
                       time_diff          |-> curr_row.timestamp - prev_row.timestamp,
                       prev_timestamp     |-> prev_row.timestamp]
         IN  IF FloatRaises(prev_fuel) \/ FloatRaises(curr_fuel)
             THEN [raised |-> TRUE, events |-> << >>]
             ELSE IF ConsumedCells(prev_row.available, prev_fuel, curr_fuel)
                  THEN ScanPairs(car_data, i + 1, Append(events, event))
                  ELSE ScanPairs(car_data, i + 1, events)

RECURSIVE ScanGroups(_, _, _)
\* "for car_id, car_data in df.groupby('car_id')" over the keys still to visit
ScanGroups(df, keys, events) ==
    IF keys = {} THEN [raised |-> FALSE, events |-> events]
    ELSE LET car_id == CHOOSE k \in keys : \A j \in keys : k <= j
             r == ScanPairs(SortByTimestamp(GroupOf(df, car_id)), 1, events)
         IN  IF r.raised THEN r
             ELSE ScanGroups(df, keys \ {car_id}, r.events)

CalculateConsumptionFromReadings(df) == ScanGroups(df, GroupKeys(df), << >>)

----------------------------------------------------------------------------
(* read_database.calculate_fuel_consumption *)

\* "for car_id, _ in cars_with_data[:10]"
MaxDbCars == 10

\* rows of car_readings: fuel is a number or NULL (read as None)
DbRows ==
    {[car_id |-> c, timestamp |-> t, fuel |-> Num(v), available |-> a] :
        c \in ReadingCars, t \in Times, v \in FuelValues, a \in BOOLEAN}
    \cup {[car_id |-> 1, timestamp |-> t, fuel |-> NaN, available |-> a] :
        t \in Times, a \in BOOLEAN}
DbTables(n) == [1..n -> DbRows]

RECURSIVE FirstKeys(_, _)
\* the n smallest keys
FirstKeys(keys, n) ==
    IF n = 0 \/ keys = {} THEN {}
    ELSE LET k == CHOOSE x \in keys : \A j \in keys : x <= j
         IN  {k} \cup FirstKeys(keys \ {k}, n - 1)

\* "GROUP BY car_id HAVING cnt > 1", the first ten
CarsWithData(db) ==
    FirstKeys({c \in GroupKeys(db) : Len(GroupOf(db, c)) > 1}, MaxDbCars)

RECURSIVE DbScanPairs(_, _, _)
\* "if prev_available and curr_fuel < prev_fuel": comparing None raises
\* TypeError, unless prev_available is false and the comparison is not made
DbScanPairs(readings, i, events) ==
    IF i > Len(readings) - 1 THEN [raised |-> FALSE, events |-> events]
    ELSE LET prev == readings[i]
             curr == readings[i + 1]
             prev_fuel == prev.fuel
             curr_fuel == curr.fuel
             event == [car_id      |-> prev.car_id,
                       consumption |-> prev_fuel.v - curr_fuel.v,
                       prev_ts     |-> prev.timestamp,
                       curr_ts     |-> curr.timestamp]
         IN  IF ~prev.available THEN DbScanPairs(readings, i + 1, events)
             ELSE IF prev_fuel.kind = "nan" \/ curr_fuel.kind = "nan"
                  THEN [raised |-> TRUE, events |-> << >>]
             ELSE IF Consumed(prev.available, prev_fuel.v, curr_fuel.v)
                  THEN DbScanPairs(readings, i + 1, Append(events, event))
                  ELSE DbScanPairs(readings, i + 1, events)

RECURSIVE DbScanCars(_, _, _)
DbScanCars(db, keys, events) ==
    IF keys = {} THEN [raised |-> FALSE, events |-> events]
    ELSE LET car_id == CHOOSE k \in keys : \A j \in keys : k <= j
             r == DbScanPairs(SortByTimestamp(GroupOf(db, car_id)), 1, events)
         IN  IF r.raised THEN r
             ELSE DbScanCars(db, keys \ {car_id}, r.events)

CalculateFuelConsumption(db) == DbScanCars(db, CarsWithData(db), << >>)

----------------------------------------------------------------------------
(* monitor_traficar.main, one monitoring cycle per run, step by step *)

NoCall == [fn |-> "none"]
NotFetched == [written |-> FALSE, table |-> << >>]
NoPoll == [cycle |-> 0, cars |-> << >>]
NeverSeen == [c \in CarIds |-> << >>]

Init ==
    /\ pc = "start"
    /\ cycle = 0
    /\ cacheFile = NoCache
    /\ stateFile = NoState
    /\ logFile = NoLog
    /\ models = << >>
    /\ current_cars = << >>
    /\ previous_state = << >>
    /\ consumption_events = << >>
    /\ fetched = NotFetched
    /\ lastPoll = NoPoll
    /\ lastSeen = NeverSeen
    /\ logAtStart = NoLog
    /\ call = NoCall

\* the run ends (normally or by an uncaught exception): its locals are gone
EndOfRun ==
    /\ pc' = "start"
    /\ models' = << >>
    /\ current_cars' = << >>
    /\ previous_state' = << >>
    /\ consumption_events' = << >>

\* models = get_car_models()
GetModelsStep ==
    /\ pc = "start"
    /\ cycle < MaxCycles
    /\ cycle' = cycle + 1
    /\ logAtStart' = logFile
    /\ \E status \in ApiAnswers :
         LET r == GetCarModels(cacheFile, status)
         IN  /\ cacheFile' = r.cache
             /\ fetched' = IF r.wrote THEN [written |-> TRUE, table |-> r.models]
                           ELSE fetched
             /\ IF r.raised
                THEN EndOfRun
                ELSE /\ pc' = "models"
                     /\ models' = r.models
                     /\ UNCHANGED <<current_cars, previous_state, consumption_events>>
    /\ UNCHANGED <<stateFile, logFile, lastPoll, lastSeen, call>>

\* current_cars = get_cars()
GetCarsStep ==
    /\ pc = "models"
    /\ \E cars \in Polls : current_cars' = cars
    /\ pc' = "cars"
    /\ UNCHANGED <<cycle, cacheFile, stateFile, logFile, models, previous_state,
                   consumption_events, fetched, lastPoll, lastSeen, logAtStart, call>>

\* previous_state = load_previous_state()
LoadStateStep ==
    /\ pc = "cars"
    /\ previous_state' = LoadPreviousState(stateFile)
    /\ pc' = "loaded"
    /\ UNCHANGED <<cycle, cacheFile, stateFile, logFile, models, current_cars,
                   consumption_events, fetched, lastPoll, lastSeen, logAtStart, call>>

\* "if previous_state: consumption_events = calculate_consumption(...)
\*      if consumption_events: append_consumption_log(timestamp, consumption_events)"
CalcStep ==
    /\ pc = "loaded"
    /\ IF previous_state = << >>
       THEN /\ pc' = "calc"
            /\ UNCHANGED <<logFile, models, current_cars, previous_state,
                           consumption_events>>
       ELSE LET r == CalculateConsumption(previous_state, current_cars, models)
            IN  IF r.raised
                THEN EndOfRun /\ UNCHANGED logFile
                ELSE /\ pc' = "calc"
                     /\ consumption_events' = r.events
                     /\ logFile' = AppendConsumptionLog(logFile, cycle, r.events)
                     /\ UNCHANGED <<models, current_cars, previous_state>>
    /\ UNCHANGED <<cycle, cacheFile, stateFile, fetched, lastPoll, lastSeen,
                   logAtStart, call>>

\* save_current_state(current_cars, models)
SaveStep ==
    /\ pc = "calc"
    /\ LET r == SaveCurrentState(current_cars, models)
           polled(c) == \E i \in 1..Len(current_cars) : current_cars[i].id = c
           record(c) == current_cars[CHOOSE i \in 1..Len(current_cars) :
                                        current_cars[i].id = c]
       IN  /\ stateFile' = r.file
           /\ lastPoll' = IF r.raised THEN lastPoll
                          ELSE [cycle |-> cycle, cars |-> current_cars]
           /\ lastSeen' = IF r.raised THEN lastSeen
                          ELSE [c \in CarIds |->
                                  IF polled(c) THEN <<record(c)>> ELSE lastSeen[c]]
    /\ EndOfRun
    /\ UNCHANGED <<cycle, cacheFile, logFile, fetched, logAtStart, call>>

Next ==
    \/ GetModelsStep
    \/ GetCarsStep
    \/ LoadStateStep
    \/ CalcStep
    \/ SaveStep

Spec == Init /\ [][Next]_vars

----------------------------------------------------------------------------
(* monitor_traficar.main as one run over given files and API answers *)

\* variant: a first run returns before save_current_state
MainRunFirstRunReturns(cache, state, log, status, cars, now) ==
    LET m == GetCarModels(cache, status)
    IN  [raised |-> m.raised, loaded |-> ~m.raised, saved |-> FALSE,
         wrote_state |-> FALSE, models |-> m.models, previous_state |-> << >>,
         events |-> << >>, cache |-> m.cache, state |-> state, log |-> log]

MainRun(cache, state, log, status, cars, now) ==
    LET m    == GetCarModels(cache, status)
        prev == LoadPreviousState(state)
        calc == IF prev = << >> THEN [raised |-> FALSE, events |-> << >>]
                ELSE CalculateConsumption(prev, cars, m.models)
        log2 == IF prev # << >> /\ ~calc.raised
                THEN AppendConsumptionLog(log, now, calc.events) ELSE log
        save == SaveCurrentState(cars, m.models)
    IN  IF m.raised
        THEN [raised |-> TRUE, loaded |-> FALSE, saved |-> FALSE, wrote_state |-> FALSE,
              models |-> << >>, previous_state |-> << >>, events |-> << >>,
              cache |-> m.cache, state |-> state, log |-> log]
        ELSE IF calc.raised
        THEN [raised |-> TRUE, loaded |-> TRUE, saved |-> FALSE, wrote_state |-> FALSE,
              models |-> m.models, previous_state |-> prev, events |-> << >>,
              cache |-> m.cache, state |-> state, log |-> log]
        ELSE [raised |-> save.raised, loaded |-> TRUE, saved |-> ~save.raised,
              wrote_state |-> TRUE,
              models |-> m.models, previous_state |-> prev, events |-> calc.events,
              cache |-> m.cache, state |-> save.file, log |-> log2]

----------------------------------------------------------------------------
(* Direct calls of the derivation functions on sample arguments: one call *)
(* per behaviour, its arguments and result kept in call                     *)

\* the table a fetch returns when both requests succeed
FullTable == FetchModels([t \in {1, 2} |-> 200])

\* the tables get_car_models can return: as fetched, or as loaded from a cache
SampleTables ==
    LET fresh == {FetchModels(s) : s \in ApiAnswers}
    IN  fresh \cup {JsonLoad(JsonDump(t)) : t \in fresh}

\* previous volumes 0.1 and 0.11 litres above the car's 50 % level
PreviousEntries(c) ==
    {[fuel_percent |-> 51,
      fuel_liters  |-> Liters(50, FullTable[IntKey(ModelOfCar(c))].maxFuel) + d,
      available |-> a, model_id |-> ModelOfCar(c)] :
        d \in {100, 110}, a \in BOOLEAN}

RECURSIVE PreviousStatesOf(_)
PreviousStatesOf(S) ==
    IF S = {} THEN {<< >>}
    ELSE LET c    == CHOOSE x \in S : \A y \in S : x <= y
             rest == PreviousStatesOf(S \ {c})
         IN  rest \cup {(c :> e) @@ p : e \in PreviousEntries(c), p \in rest}

PreviousStates == PreviousStatesOf(CarIds)

\* state files a completed run can leave (the last also for car 2 at 52 %,
\* 5.408 l, written "5.41"), and one of the old format
SampleStateFiles ==
    {NoState, [exists |-> TRUE, format |-> "old", rows |-> <<[id |-> 1]>>]}
    \cup {SaveCurrentState(cars, FullTable).file :
            cars \in {p \in Polls : \A i \in 1..Len(p) : HasKey(p[i], "fuel")}}
    \cup {SaveCurrentState(<<[id |-> 2, modelId |-> 11, fuel |-> 52,
                              available |-> TRUE]>>, FullTable).file}

SampleLogFiles ==
    {NoLog,
     AppendConsumptionLog(NoLog, 0,
        <<[car_id |-> 2, consumption |-> 104, car_name |-> "m11", model_type |-> 2,
           prev_fuel |-> 5304, curr_fuel |-> 5200]>>)}

SampleCacheFiles == {NoCache, [exists |-> TRUE, json |-> JsonDump(FullTable)]}

MonitorIdle ==
    UNCHANGED <<pc, cycle, cacheFile, stateFile, logFile, models, current_cars,
                previous_state, consumption_events, fetched, lastPoll, lastSeen,
                logAtStart>>

CallCalculateConsumption ==
    /\ call = NoCall
    /\ \E prev \in PreviousStates, cars \in Polls, table \in SampleTables :
         call' = [fn |-> "calculate_consumption",
                  previous_state |-> prev, current_cars |-> cars, models |-> table,
                  ret |-> CalculateConsumption(prev, cars, table)]
    /\ MonitorIdle

CallFromReadings ==
    /\ call = NoCall
    /\ \E n \in 0..MaxReadings : \E df \in ReadingSets(n) :
         call' = [fn |-> "calculate_consumption_from_readings", df |-> df,
                  ret |-> CalculateConsumptionFromReadings(df)]
    /\ MonitorIdle

CallFuelConsumption ==
    /\ call = NoCall
    /\ \E n \in 0..MaxReadings : \E db \in DbTables(n) :
         call' = [fn |-> "calculate_fuel_consumption", db |-> db,
                  ret |-> CalculateFuelConsumption(db)]
    /\ MonitorIdle

CallMain ==
    /\ call = NoCall
    /\ \E cache \in SampleCacheFiles, state \in SampleStateFiles,
          log \in SampleLogFiles, status \in ApiAnswers, cars \in Polls :
         call' = [fn |-> "main", cache |-> cache, state |-> state, log |-> log,
                  status |-> status, current_cars |-> cars,
                  ret |-> MainRun(cache, state, log, status, cars, 1)]
    /\ MonitorIdle

NextCalls ==
    \/ CallCalculateConsumption
    \/ CallFromReadings
    \/ CallFuelConsumption
    \/ CallMain

SpecCalls == Init /\ [][NextCalls]_vars


----------------------------------------------------------------------------
(* Successive calls of append_consumption_log on the consumption log *)

SampleEvent(c) ==
    [car_id |-> c, consumption |-> 104, car_name |-> "m11", model_type |-> 2,
     prev_fuel |-> 5304, curr_fuel |-> 5200]

SampleEventLists ==
    {<< >>} \cup {<<SampleEvent(c)>> : c \in CarIds}
    \cup {<<SampleEvent(c), SampleEvent(d)>> : c \in CarIds, d \in CarIds}

AppendCall ==
    /\ cycle < MaxCycles
    /\ cycle' = cycle + 1
    /\ \E events \in SampleEventLists :
         /\ logFile' = AppendConsumptionLog(logFile, cycle', events)
         /\ call' = [fn |-> "append_consumption_log", timestamp |-> cycle',
                     consumption_events |-> events, before |-> logFile]
    /\ UNCHANGED <<pc, cacheFile, stateFile, models, current_cars, previous_state,
                   consumption_events, fetched, lastPoll, lastSeen, logAtStart>>

NextLog == AppendCall

SpecLog == Init /\ [][NextLog]_vars


----------------------------------------------------------------------------
(* The derivation functions called twice on the same objects: a call returns *)
(* its result and leaves its argument objects as its statements leave them   *)

\* variant: the call records the current levels in previous_state
CalculateConsumptionRemembers(prev, cars, table) ==
    LET seen(c) == \E i \in 1..Len(cars) :
                      /\ cars[i].id = c
                      /\ ~Skipped(cars[i], table)
                      /\ HasKey(cars[i], "fuel")
        car(c)  == cars[CHOOSE i \in 1..Len(cars) : cars[i].id = c]
    IN  [ret |-> CalculateConsumption(prev, cars, table),
         previous_state |->
            [c \in DOMAIN prev |->
                IF seen(c)
                THEN [prev[c] EXCEPT !.fuel_liters =
                         Liters(car(c).fuel, table[IntKey(car(c).modelId)].maxFuel)]
                ELSE prev[c]],
         current_cars |-> cars, models |-> table]

\* calculate_consumption(previous_state, current_cars, models): the loop only
\* reads its three arguments and appends to its own list
CalculateConsumptionCall(prev, cars, table) ==
    [ret |-> CalculateConsumption(prev, cars, table),
     previous_state |-> prev, current_cars |-> cars, models |-> table]

\* variant: the frame itself is sorted by timestamp (inplace=True)
FromReadingsSortsInPlace(df) ==
    [ret |-> CalculateConsumptionFromReadings(df), df |-> SortByTimestamp(df)]

\* calculate_consumption_from_readings(df): groupby yields the groups and
\* "car_data = car_data.sort_values('timestamp')" binds a new sorted frame
FromReadingsCall(df) ==
    [ret |-> CalculateConsumptionFromReadings(df), df |-> df]

\* the caller holds previous_state, current_cars and models, beside a log file
TakePollArguments ==
    /\ pc = "start"
    /\ \E prev \in PreviousStates, cars \in Polls, table \in SampleTables,
          log \in SampleLogFiles :
         /\ previous_state' = prev
         /\ current_cars' = cars
         /\ models' = table
         /\ logFile' = log
         /\ call' = [fn |-> "calculate_consumption", previous_state |-> prev,
                     current_cars |-> cars, models |-> table, log |-> log,
                     rets |-> << >>]
    /\ pc' = "polling"
    /\ UNCHANGED <<cycle, cacheFile, stateFile, consumption_events, fetched,
                   lastPoll, lastSeen, logAtStart>>

\* the caller holds a frame of readings
TakeFrame ==
    /\ pc = "start"
    /\ \E n \in 0..MaxReadings : \E df \in ReadingSets(n) :
         call' = [fn |-> "calculate_consumption_from_readings", df |-> df,
                  held |-> df, rets |-> << >>]
    /\ pc' = "batch"
    /\ UNCHANGED <<cycle, cacheFile, stateFile, logFile, models, current_cars,
                   previous_state, consumption_events, fetched, lastPoll, lastSeen,
                   logAtStart>>

\* consumption_events = calculate_consumption(previous_state, current_cars, models)
DeriveFromPoll ==
    /\ pc = "polling"
    /\ Len(call.rets) < 2
    /\ LET r == CalculateConsumptionCall(previous_state, current_cars, models)
       IN  /\ previous_state' = r.previous_state
           /\ current_cars' = r.current_cars
           /\ models' = r.models
           /\ consumption_events' = r.ret.events
           /\ call' = [call EXCEPT !.rets = Append(@, r.ret)]
    /\ UNCHANGED <<pc, cycle, cacheFile, stateFile, logFile, fetched, lastPoll,
                   lastSeen, logAtStart>>

\* consumption_df = calculate_consumption_from_readings(df)
DeriveFromReadings ==
    /\ pc = "batch"
    /\ Len(call.rets) < 2
    /\ LET r == FromReadingsCall(call.held)
       IN  call' = [call EXCEPT !.rets = Append(@, r.ret), !.held = r.df]
    /\ UNCHANGED <<pc, cycle, cacheFile, stateFile, logFile, models, current_cars,
                   previous_state, consumption_events, fetched, lastPoll, lastSeen,
                   logAtStart>>

NextTwice ==
    \/ TakePollArguments
    \/ TakeFrame
    \/ DeriveFromPoll
    \/ DeriveFromReadings

SpecTwice == Init /\ [][NextTwice]_vars

----------------------------------------------------------------------------
(* Properties *)

\* the rows of car c of frame df, ascending by timestamp, must be g
IsSortedGroup(df, c, g) ==
    /\ \A i \in 1..Len(g) : g[i].car_id = c
    /\ \A i \in 1..Len(g), j \in 1..Len(g) : i < j => g[i].timestamp <= g[j].timestamp
    /\ \A r \in ReadingRows :
         Cardinality({i \in 1..Len(g) : g[i] = r})
             = Cardinality({i \in 1..Len(df) : df[i] = r /\ r.car_id = c})

\* adjacent pair (i, i+1) of g: earlier available, later strictly less,
\* earlier minus later strictly greater than 0.1 l
PairQualifies(g, i) ==
    /\ g[i].available
    /\ g[i].fuel_liters.kind = "num" /\ g[i + 1].fuel_liters.kind = "num"
    /\ g[i + 1].fuel_liters.v < g[i].fuel_liters.v
    /\ g[i].fuel_liters.v - g[i + 1].fuel_liters.v > 100

\* the events, in order, are those of the qualifying pairs of each group
EventsMatchPairs(df, events) ==
    /\ \A k \in 1..Len(events) : events[k].car_id \in GroupKeys(df)
    /\ \A c \in GroupKeys(df) :
         LET g    == SortByTimestamp(GroupOf(df, c))
             evc  == SelectSeq(events, LAMBDA e : e.car_id = c)
             qual == {i \in 1..(Len(g) - 1) : PairQualifies(g, i)}
             nth(k) == CHOOSE i \in qual : Cardinality({j \in qual : j < i}) = k - 1
         IN  /\ IsSortedGroup(df, c, g)
             /\ Len(evc) = Cardinality(qual)
             /\ \A k \in 1..Len(evc) :
                  /\ evc[k].prev_timestamp = g[nth(k)].timestamp
                  /\ evc[k].timestamp = g[nth(k) + 1].timestamp
                  /\ evc[k].prev_fuel_liters = g[nth(k)].fuel_liters.v
                  /\ evc[k].curr_fuel_liters = g[nth(k) + 1].fuel_liters.v

\* C1: a call of calculate_consumption_from_readings that returns emits, for
\* every car group sorted by timestamp, exactly one event for each adjacent
\* pair whose earlier reading is available and whose fuel drops by more than
\* 0.1 l, and no other event
C1_EventPerQualifyingPair ==
    (call.fn = "calculate_consumption_from_readings" /\ ~call.ret.raised)
        => EventsMatchPairs(call.df, call.ret.events)

\* C1 witness: one car with three readings, a drop of exactly 0.1 l that emits
\* nothing followed by a drop that emits the only event
C1_Witness ==
    /\ call.fn = "calculate_consumption_from_readings"
    /\ ~call.ret.raised
    /\ Len(call.df) = 3
    /\ Len(call.ret.events) = 1
    /\ \E c \in GroupKeys(call.df) :
         LET g == SortByTimestamp(GroupOf(call.df, c))
         IN  /\ Len(g) = 3
             /\ g[1].available /\ g[1].fuel_liters = Num(12500)
             /\ g[2].fuel_liters = Num(12400)
             /\ PairQualifies(g, 2)


\* C2: every event of the three derivations comes from an earlier reading A
\* and a later reading B of the same vehicle with A available,
\* fuel_before = fuel(A) > fuel_after = fuel(B) and
\* consumption = fuel_before - fuel_after > 0.1
C2_EventFromDecreasingPair ==
    /\ (call.fn = "calculate_consumption" /\ ~call.ret.raised) =>
         \A k \in 1..Len(call.ret.events) :
            LET e == call.ret.events[k]
            IN  /\ e.car_id \in DOMAIN call.previous_state
                /\ LET A == call.previous_state[e.car_id]
                   IN  /\ A.available
                       /\ e.prev_fuel = A.fuel_liters
                       /\ \E i \in 1..Len(call.current_cars) :
                            LET B == call.current_cars[i]
                            IN  /\ B.id = e.car_id
                                /\ HasKey(B, "fuel")
                                /\ IntKey(B.modelId) \in DOMAIN call.models
                                /\ e.curr_fuel =
                                     B.fuel * call.models[IntKey(B.modelId)].maxFuel
                /\ e.prev_fuel > e.curr_fuel
                /\ e.consumption = e.prev_fuel - e.curr_fuel
                /\ e.consumption > 100
    /\ (call.fn = "calculate_consumption_from_readings" /\ ~call.ret.raised) =>
         \A k \in 1..Len(call.ret.events) :
            LET e == call.ret.events[k]
            IN  /\ \E i \in 1..Len(call.df), j \in 1..Len(call.df) :
                     LET A == call.df[i]
                         B == call.df[j]
                     IN  /\ i # j
                         /\ A.car_id = e.car_id /\ B.car_id = e.car_id
                         /\ A.timestamp = e.prev_timestamp
                         /\ B.timestamp = e.timestamp
                         /\ A.timestamp <= B.timestamp
                         /\ A.available
                         /\ A.fuel_liters = Num(e.prev_fuel_liters)
                         /\ B.fuel_liters = Num(e.curr_fuel_liters)
                /\ e.prev_fuel_liters > e.curr_fuel_liters
                /\ e.consumption_liters = e.prev_fuel_liters - e.curr_fuel_liters
                /\ e.consumption_liters > 100
    /\ (call.fn = "calculate_fuel_consumption" /\ ~call.ret.raised) =>
         \A k \in 1..Len(call.ret.events) :
            LET e == call.ret.events[k]
            IN  /\ \E i \in 1..Len(call.db), j \in 1..Len(call.db) :
                     LET A == call.db[i]
                         B == call.db[j]
                     IN  /\ i # j
                         /\ A.car_id = e.car_id /\ B.car_id = e.car_id
                         /\ A.timestamp = e.prev_ts
                         /\ B.timestamp = e.curr_ts
                         /\ A.timestamp <= B.timestamp
                         /\ A.available
                         /\ A.fuel.kind = "num" /\ B.fuel.kind = "num"
                         /\ A.fuel.v > B.fuel.v
                         /\ e.consumption = A.fuel.v - B.fuel.v
                /\ e.consumption > 100

\* C2 witness: calculate_consumption returned an event for each of two cars
C2_Witness ==
    /\ call.fn = "calculate_consumption"
    /\ ~call.ret.raised
    /\ Len(call.ret.events) = 2
    /\ call.ret.events[1].car_id # call.ret.events[2].car_id


\* the table lists model m, under whatever kind of key, with type 1 or 2
Admitted(table, m) ==
    \E k \in DOMAIN table : k[2] = m /\ table[k].type \in {1, 2}

\* the lines a run added to the log
AddedLines(before, after) ==
    SubSeq(after.lines, Len(before.lines) + 1, Len(after.lines))

\* C5: a polled vehicle whose modelId the model table does not list, or lists
\* with a type outside {1, 2}, gets no event from calculate_consumption, no
\* line appended to the log and no row written to the state file
C5_UnresolvedExcluded ==
    /\ call.fn = "calculate_consumption" =>
         \A i \in 1..Len(call.current_cars) :
            ~Admitted(call.models, call.current_cars[i].modelId) =>
                \A k \in 1..Len(call.ret.events) :
                    call.ret.events[k].car_id # call.current_cars[i].id
    /\ call.fn = "main" =>
         \A i \in 1..Len(call.current_cars) :
            ~Admitted(call.ret.models, call.current_cars[i].modelId) =>
                /\ \A k \in 1..Len(call.ret.events) :
                      call.ret.events[k].car_id # call.current_cars[i].id
                /\ LET added == AddedLines(call.log, call.ret.log)
                   IN  \A k \in 1..Len(added) :
                          added[k].kind = "row" => added[k].car_id # call.current_cars[i].id
                /\ call.ret.wrote_state =>
                      \A k \in 1..Len(call.ret.state.rows) :
                          call.ret.state.rows[k].id # call.current_cars[i].id

\* C5 witness: calculate_consumption returned an event for another car while
\* car 3 (model 12, of type 3), available before and now 0.11 l lower, got none
C5_Witness ==
    /\ call.fn = "calculate_consumption"
    /\ call.ret.events # << >>
    /\ IntKey(12) \in DOMAIN call.models
    /\ 3 \in DOMAIN call.previous_state
    /\ call.previous_state[3].available
    /\ \E i \in 1..Len(call.current_cars) :
         /\ call.current_cars[i].id = 3
         /\ ~Admitted(call.models, call.current_cars[i].modelId)
         /\ HasKey(call.current_cars[i], "fuel")
         /\ call.previous_state[3].fuel_liters
               - call.current_cars[i].fuel * call.models[IntKey(12)].maxFuel > 100

\* the records of a poll that lack no field
WellFormed(cars) == SelectSeq(cars, LAMBDA car : HasKey(car, "fuel"))

\* C8: a malformed reading never makes derivation fail: the call returns, and
\* its events are those of the well-formed readings
C8_MalformedReadingSkipped ==
    /\ call.fn = "calculate_consumption" =>
         /\ ~call.ret.raised
         /\ call.ret.events =
              CalculateConsumption(call.previous_state, WellFormed(call.current_cars),
                                   call.models).events
    /\ call.fn = "calculate_consumption_from_readings" =>
         /\ ~call.ret.raised
         /\ EventsMatchPairs(call.df, call.ret.events)

\* the rows save_current_state is to write for a poll: one per car the table
\* lists with type 1 or 2, in poll order
RowsMatchPoll(rows, cars, table) ==
    LET kept == SelectSeq(cars, LAMBDA car :
                    /\ IntKey(car.modelId) \in DOMAIN table
                    /\ table[IntKey(car.modelId)].type \in {1, 2})
    IN  /\ Len(rows) = Len(kept)
        /\ \A k \in 1..Len(rows) :
              /\ rows[k].id = kept[k].id
              /\ rows[k].fuel_percent = kept[k].fuel
              /\ rows[k].model_id = kept[k].modelId

\* C9: empty input gives empty output without error: an empty frame gives no
\* event; an empty current_cars or an empty previous_state gives no event; a
\* run that loads an empty previous state leaves the log as it was and, its
\* poll being well formed, still saves the current state
C9_EmptyInEmptyOut ==
    /\ (call.fn = "calculate_consumption_from_readings" /\ call.df = << >>) =>
         (~call.ret.raised /\ call.ret.events = << >>)
    /\ (call.fn = "calculate_consumption"
            /\ (call.current_cars = << >> \/ call.previous_state = << >>)) =>
         (~call.ret.raised /\ call.ret.events = << >>)
    /\ (call.fn = "main" /\ call.ret.loaded /\ call.ret.previous_state = << >>) =>
         /\ call.ret.log = call.log
         /\ call.ret.events = << >>
         /\ WellFormed(call.current_cars) = call.current_cars =>
              /\ call.ret.saved
              /\ call.ret.state.exists
              /\ RowsMatchPoll(call.ret.state.rows, call.current_cars, call.ret.models)

\* C9 witness: a first run (no state file) beside an existing log: the log is
\* untouched and the state file now has rows
C9_Witness ==
    /\ call.fn = "main"
    /\ ~call.state.exists
    /\ call.log.exists
    /\ call.ret.loaded /\ call.ret.previous_state = << >>
    /\ call.ret.saved
    /\ Len(call.ret.state.rows) = 2
    /\ call.ret.log = call.log

\* models[m]['maxFuel'] of the entry the table holds for model m
MaxFuelOf(table, m) == table[CHOOSE k \in DOMAIN table : k[2] = m].maxFuel

\* the rows among lines that are of car c
RowsOfCar(lines, c) ==
    SelectSeq(lines, LAMBDA l : l.kind = "row" /\ l.car_id = c)

\* C3: in two consecutive completed cycles, a car whose model the table lists
\* with type 1 or 2, available at p1 percent and then at p2 percent with
\* (p1 - p2)/100 * maxFuel > 0.1, gets exactly one row appended to the log by
\* the second cycle, of consumption_liters (p1 - p2)/100 * maxFuel to 2 decimals
C3_DropLoggedOnce ==
    (pc = "calc" /\ cycle > 1 /\ lastPoll.cycle = cycle - 1
        /\ WellFormed(current_cars) = current_cars) =>
      \A i \in 1..Len(lastPoll.cars), j \in 1..Len(current_cars) :
         LET A == lastPoll.cars[i]
             B == current_cars[j]
         IN  (/\ A.id = B.id
              /\ HasKey(A, "fuel")
              /\ A.available /\ B.available
              /\ Admitted(models, B.modelId)
              /\ (A.fuel - B.fuel) * MaxFuelOf(models, B.modelId) > Threshold)
             => LET mine == RowsOfCar(AddedLines(logAtStart, logFile), B.id)
                IN  /\ Len(mine) = 1
                    /\ mine[1].consumption_liters =
                         Format2f((A.fuel - B.fuel) * MaxFuelOf(models, B.modelId))

\* C4: once the cache file is written, in that cycle and in every later one,
\* for the modelId m of every car 'm in models' and models[m] answer as they
\* do on the table that was fetched
C4_CacheResolvesSameModels ==
    (pc # "start" /\ fetched.written) =>
      \A c \in CarIds :
         LET m == IntKey(ModelOfCar(c))
         IN  /\ (m \in DOMAIN models) <=> (m \in DOMAIN fetched.table)
             /\ (m \in DOMAIN models) => models[m] = fetched.table[m]

\* C6: the previous fuel value a cycle loads for a car is the unrounded
\* fuel/100 * maxFuel the preceding cycle computed for it, so 'curr < prev and
\* prev - curr > 0.1' decides against any current level as on the unrounded value
C6_ComparesFullPrecision ==
    (pc = "loaded" /\ cycle > 1 /\ lastPoll.cycle = cycle - 1) =>
      \A i \in 1..Len(lastPoll.cars) :
         LET A == lastPoll.cars[i]
         IN  A.id \in DOMAIN previous_state =>
               LET max_fuel == MaxFuelOf(fetched.table, A.modelId)
                   exact    == Liters(A.fuel, max_fuel)
                   prev     == previous_state[A.id]
               IN  /\ prev.fuel_liters = exact
                   /\ \A p \in Percents :
                        Consumed(prev.available, prev.fuel_liters, Liters(p, max_fuel))
                          <=> Consumed(prev.available, exact, Liters(p, max_fuel))

\* C7: the previous state a cycle loads holds, for each vehicle of a model the
\* table lists with type 1 or 2 that an earlier completed cycle polled, the
\* fuel, availability and model of the last completed cycle that polled it
C7_LastSnapshotKept ==
    (pc = "loaded" /\ fetched.written) =>
      \A c \in CarIds :
         (/\ lastSeen[c] # << >>
          /\ HasKey(lastSeen[c][1], "fuel")
          /\ Admitted(fetched.table, lastSeen[c][1].modelId))
         => /\ c \in DOMAIN previous_state
            /\ previous_state[c].fuel_percent = lastSeen[c][1].fuel
            /\ previous_state[c].available = lastSeen[c][1].available
            /\ previous_state[c].model_id = lastSeen[c][1].modelId

\* C10: a call of append_consumption_log with no event leaves the log as it
\* was (not created, not changed); otherwise every old line stays in place,
\* a header is written first only if the file did not exist, and one row per
\* event follows in event order; the header is the first line and the only one
C10_LogAppendOnly ==
    call.fn = "append_consumption_log" =>
      LET old    == call.before.lines
          events == call.consumption_events
          start  == IF call.before.exists THEN Len(old) ELSE 1
      IN  /\ events = << >> => logFile = call.before
          /\ events # << >> =>
               /\ logFile.exists
               /\ Len(logFile.lines) = start + Len(events)
               /\ \A i \in 1..Len(old) : logFile.lines[i] = old[i]
               /\ \A k \in 1..Len(events) :
                    LET row == logFile.lines[start + k]
                    IN  /\ row.kind = "row"
                        /\ row.timestamp = call.timestamp
                        /\ row.car_id = events[k].car_id
                        /\ row.car_name = events[k].car_name
                        /\ row.model_type = events[k].model_type
                        /\ row.consumption_liters = Format2f(events[k].consumption)
                        /\ row.prev_fuel_liters = Format2f(events[k].prev_fuel)
                        /\ row.curr_fuel_liters = Format2f(events[k].curr_fuel)
          /\ logFile.exists =>
               /\ logFile.lines[1] = LogHeader
               /\ \A i \in 2..Len(logFile.lines) : logFile.lines[i].kind = "row"
          /\ ~logFile.exists => logFile.lines = << >>

\* C10 witness: a call with two events on a log that already held a header and
\* rows, after which the log is two rows longer
C10_Witness ==
    /\ call.fn = "append_consumption_log"
    /\ call.before.exists
    /\ Len(call.before.lines) >= 2
    /\ Len(call.consumption_events) = 2
    /\ Len(logFile.lines) = Len(call.before.lines) + 2

\* both calls have returned or raised
CalledTwice == pc \in {"polling", "batch"} /\ Len(call.rets) = 2

\* the rows of a frame carry numbers or empty cells only
NumericFrame(df) == \A i \in 1..Len(df) : df[i].fuel_liters.kind # "text"

C12_DerivationLeavesInputs ==
    /\ pc = "polling" =>
         /\ previous_state = call.previous_state
         /\ current_cars = call.current_cars
         /\ models = call.models
         /\ logFile = call.log
         /\ stateFile = NoState /\ cacheFile = NoCache
    /\ pc = "batch" =>
         /\ call.held = call.df
         /\ logFile = NoLog /\ stateFile = NoState /\ cacheFile = NoCache

\* C12 witness: two calls on a frame whose rows of one car are not in
\* timestamp order returned an event, and the frame is as it was
C12_Witness ==
    /\ CalledTwice
    /\ call.fn = "calculate_consumption_from_readings"
    /\ Len(call.df) = 2
    /\ call.df[1].car_id = call.df[2].car_id
    /\ call.df[1].timestamp > call.df[2].timestamp
    /\ call.rets[2].events # << >>
    /\ call.held = call.df

\* the readings a poll amounts to at time t: one per car, its level in litres
ReadingsOf(cars, table, t) ==
    [i \in 1..Len(cars) |->
        [car_id      |-> cars[i].id,
         timestamp   |-> t,
         fuel_liters |-> Num(Liters(cars[i].fuel, MaxFuelOf(table, cars[i].modelId))),
         available   |-> cars[i].available]]

\* every record of the poll has its fuel and a model the table lists with
\* type 1 or 2
AllResolvable(cars, table) ==
    \A i \in 1..Len(cars) :
        HasKey(cars[i], "fuel") /\ Admitted(table, cars[i].modelId)

\* C13: when two consecutive cycles poll the same vehicles, all of models the
\* table lists with type 1 or 2, the rows the cycles have logged are, as
\* (car_id, fuel_before, fuel_after, consumption) to 2 decimals, the events
\* calculate_consumption_from_readings derives from the readings of both polls
C13_PollingMatchesBatch ==
    (/\ pc = "calc" /\ cycle = 2 /\ lastPoll.cycle = 1
     /\ current_cars # << >>
     /\ {lastPoll.cars[i].id : i \in 1..Len(lastPoll.cars)}
           = {current_cars[i].id : i \in 1..Len(current_cars)}
     /\ AllResolvable(lastPoll.cars, models)
     /\ AllResolvable(current_cars, models))
    => LET df     == ReadingsOf(lastPoll.cars, models, 1)
                        \o ReadingsOf(current_cars, models, 2)
           batch  == CalculateConsumptionFromReadings(df).events
           logged == SelectSeq(logFile.lines, LAMBDA l : l.kind = "row")
       IN  {<<logged[k].car_id, logged[k].prev_fuel_liters,
              logged[k].curr_fuel_liters, logged[k].consumption_liters>> :
                 k \in 1..Len(logged)}
           = {<<batch[k].car_id, Format2f(batch[k].prev_fuel_liters),
                Format2f(batch[k].curr_fuel_liters),
                Format2f(batch[k].consumption_liters)>> : k \in 1..Len(batch)}

RECURSIVE SumLiters(_)
\* the consumption_liters of log rows, added up, in millilitres
SumLiters(rows) ==
    IF rows = << >> THEN 0
    ELSE ParseFloat(Head(rows).consumption_liters) + SumLiters(Tail(rows))

\* the decrease of car c between the poll the state file records (its
\* fuel_percent column) and the current poll, in millilitres
DecreaseOf(c, state_rows, cars) ==
    LET before == SelectSeq(state_rows, LAMBDA r : r.id = c)
        now    == SelectSeq(cars, LAMBDA r : r.id = c /\ HasKey(r, "fuel"))
    IN  IF before = << >> \/ now = << >> THEN 0
        ELSE LET max_fuel == MaxFuelOf(FullTable, now[1].modelId)
                 drop == Liters(before[1].fuel_percent, max_fuel)
                            - Liters(now[1].fuel, max_fuel)
             IN  IF drop > 0 THEN drop ELSE 0

ListedIds(status) ==
    UNION {{ApiModels(t)[i].id : i \in 1..Len(ApiModels(t))} :
              t \in {t \in {1, 2} : status[t] = 200}}

\* C15: a run that finds the cache file gets exactly its content and leaves it
\* as it is; a run that finds none raises without writing one when no request
\* lists a model, and otherwise writes the models it was listed; and whatever
\* the API answers later, a later call returns the written content and writes
\* nothing, so a cache written from one answered request stays as it is
C15_CacheWrittenOnceNeverCompleted ==
    call.fn = "main" =>
      /\ call.cache.exists =>
           /\ call.ret.loaded
           /\ call.ret.cache = call.cache
           /\ call.ret.models = call.cache.json
      /\ (~call.cache.exists /\ ListedIds(call.status) = {}) =>
           /\ call.ret.raised /\ ~call.ret.loaded
           /\ ~call.ret.cache.exists
      /\ (~call.cache.exists /\ ListedIds(call.status) # {}) =>
           /\ call.ret.loaded
           /\ call.ret.cache.exists
           /\ {k[2] : k \in DOMAIN call.ret.cache.json} = ListedIds(call.status)
           /\ {k[2] : k \in DOMAIN call.ret.models} = ListedIds(call.status)
      /\ call.ret.cache.exists =>
           \A status \in ApiAnswers :
              LET later == GetCarModels(call.ret.cache, status)
              IN  /\ ~later.raised /\ ~later.wrote
                  /\ later.cache = call.ret.cache
                  /\ later.models = call.ret.cache.json

\* C15 witness: a run without cache file in which only the modelType 2 request
\* was answered wrote a cache holding model 11 alone
C15_Witness ==
    /\ call.fn = "main"
    /\ ~call.cache.exists
    /\ call.status[1] = 500 /\ call.status[2] = 200
    /\ call.ret.cache.exists
    /\ DOMAIN call.ret.cache.json = {StrKey(11)}

====
